---- MODULE Spec2Model ----
(***************************************************************************)
(* django-pandasio: the bulk persistence engine (pandasio/db) and the      *)
(* dataframe serializer that feeds it (pandasio/validation).               *)
(*                                                                         *)
(* Strings that the code assembles into SQL are kept as syntax trees:      *)
(* a column reference 'k' is [fn |-> "col", col |-> "k"] and               *)
(* 'COALESCE(k, -1)' is [fn |-> "coalesce", col |-> "k"].                   *)
(*                                                                         *)
(* The connection is a PostgreSQL connection: statements run in an         *)
(* implicit transaction whose working copy is `work`; commit publishes it  *)
(* to `table`, rollback discards it.  cursor(), copy_expert(), mogrify(),  *)
(* execute(), commit() and fetchall() may each raise; rollback() is the    *)
(* release primitive of the connection contract and is taken not to raise. *)
(***************************************************************************)
EXTENDS Integers, Sequences, FiniteSets, TLC

\* ------------------------------------------------------------------ bounds
MaxRows == 2
MaxSaves == 2

\* ------------------------------------------------------------------ values
None == "None"
SqlNull == "NULL"
CsvNull == "\\N"
Sentinel == "-1"
Keys == {"1", "2"}
\* the payload written by the n-th call: every row of one dataframe carries the same
\* payload and successive dataframes carry different ones
Payloads == <<"a", "b", "c", "d">>

Range(s) == {s[i] : i \in 1..Len(s)}

RECURSIVE SeqsUpTo(_, _)
SeqsUpTo(S, n) ==
    IF n = 0 THEN {<<>>}
    ELSE LET shorter == SeqsUpTo(S, n - 1)
         IN  shorter \cup {Append(s, x) : s \in {t \in shorter : Len(t) = n - 1}, x \in S}

\* a dataframe with the columns k, v: its rows, in index order
DataFrames(v) ==
    {[i \in 1..Len(ks) |-> [k |-> ks[i], v |-> v]] : ks \in SeqsUpTo(Keys \cup {None}, MaxRows)}
DataFrameColumns == <<"k", "v">>

ColExpr(name) == [fn |-> "col", col |-> name]
CoalesceExpr(name) == [fn |-> "coalesce", col |-> name]

\* ------------------------------------------------------------------ the Django model
RelationColumn == [id |-> "id_id", k |-> "k_id", v |-> "v_id"]

ModelField(name, null, unique) ==
    [name |-> name, null |-> null, unique |-> unique, is_relation |-> FALSE, db_column |-> ""]

\* a model t(id serial primary key, k unique, v); the unique constraint on k is
\* declared either by Meta.unique_together (ut = <<<<"k">>>>) or on the field alone
DjangoModel(kNull, ut) ==
    [db_table |-> "t",
     fields |-> <<ModelField("id", FALSE, TRUE), ModelField("k", kNull, TRUE),
                  ModelField("v", FALSE, FALSE)>>,
     unique_together |-> ut]

\* ------------------------------------------------------------------ pandasio/db/utils.py
get_model_fields(m) == m.fields

get_name_field_mapping(m) ==
    [n \in {f.name : f \in Range(get_model_fields(m))} |->
        CHOOSE f \in Range(get_model_fields(m)) : f.name = n]

get_field_name(field) ==
    IF field.is_relation THEN RelationColumn[field.name]
    ELSE IF field.db_column = "" THEN field.name ELSE field.db_column

get_unique_fields(m) ==
    IF m.unique_together = <<>> THEN <<>>
    ELSE LET unique_fields == m.unique_together[1]
             name_field_mapping == get_name_field_mapping(m)
         IN  [i \in 1..Len(unique_fields) |-> name_field_mapping[unique_fields[i]]]

get_unique_field_names(m) ==
    LET fields == get_unique_fields(m)
    IN  [i \in 1..Len(fields) |->
            IF ~fields[i].null THEN ColExpr(get_field_name(fields[i]))
            ELSE CoalesceExpr(get_field_name(fields[i]))]

get_model_field_names(m) ==
    [i \in 1..Len(get_model_fields(m)) |-> get_field_name(get_model_fields(m)[i])]

get_manage_field_names == {ColExpr("id")}

\* the set of columns of the SET list; '"c" = EXCLUDED."c"' is kept as ColExpr(c)
get_upsert_clause_sql(m, columns) ==
    LET cols == IF columns = <<>> THEN get_model_field_names(m) ELSE columns
    IN  {ColExpr(cols[i]) : i \in 1..Len(cols)}
            \ (Range(get_unique_field_names(m)) \cup get_manage_field_names)

\* cursor.mogrify renders None as NULL and any other value as its literal
Mogrify(x) == IF x = None THEN SqlNull ELSE x

get_insert_values_sql(rows) ==
    [i \in 1..Len(rows) |-> [k |-> Mogrify(rows[i].k), v |-> Mogrify(rows[i].v)]]

\* dataframe.to_csv(buffer, index=False, header=False, na_rep='\\N')
ToCsvCell(x) == IF x = None THEN CsvNull ELSE x
to_csv(df) == [i \in 1..Len(df) |-> [k |-> ToCsvCell(df[i].k), v |-> ToCsvCell(df[i].v)]]

\* ------------------------------------------------------------------ the PostgreSQL table
\* db = [index |-> "plain" | "coalesce", kNull |-> BOOLEAN]: the unique index on k is
\* UNIQUE (k), under which nulls never conflict, or UNIQUE (COALESCE(k, -1))
Databases == {[index |-> "plain", kNull |-> FALSE], [index |-> "plain", kNull |-> TRUE],
              [index |-> "coalesce", kNull |-> TRUE]}

IndexKey(db, k) == IF db.index = "coalesce" /\ k = SqlNull THEN Sentinel ELSE k

Conflicts(db, k1, k2) ==
    IF db.index = "plain" THEN k1 # SqlNull /\ k1 = k2
    ELSE IndexKey(db, k1) = IndexKey(db, k2)

ConflictRows(db, tbl, k) == {j \in 1..Len(tbl) : Conflicts(db, tbl[j].k, k)}

ArbiterIndex(db) == IF db.index = "plain" THEN <<ColExpr("k")>> ELSE <<CoalesceExpr("k")>>

\* COPY t (k, v) FROM stdin CSV NULL '\N': every line is inserted, the first
\* constraint violation aborts the statement
CopyParseCell(s) == IF s = CsvNull THEN SqlNull ELSE s

RECURSIVE CopyRows(_, _, _, _)
CopyRows(db, tbl, lines, i) ==
    IF i > Len(lines) THEN [ok |-> TRUE, table |-> tbl]
    ELSE LET row == [k |-> CopyParseCell(lines[i].k), v |-> CopyParseCell(lines[i].v)]
         IN  IF (row.k = SqlNull /\ ~db.kNull) \/ ConflictRows(db, tbl, row.k) # {}
             THEN [ok |-> FALSE, table |-> tbl]
             ELSE CopyRows(db, Append(tbl, row), lines, i + 1)

\* INSERT INTO t (k, v) VALUES ... [ON CONFLICT (target) DO UPDATE SET ... | DO NOTHING]
\* [RETURNING id]; `touched` are the rows this command has inserted or updated
UpdatedRow(old, new, setlist) ==
    [k |-> IF ColExpr("k") \in setlist THEN new.k ELSE old.k,
     v |-> IF ColExpr("v") \in setlist THEN new.v ELSE old.v]

RECURSIVE InsertRows(_, _, _, _, _, _)
InsertRows(db, stmt, tbl, touched, returned, i) ==
    IF i > Len(stmt.values) THEN [ok |-> TRUE, table |-> tbl, rows |-> returned]
    ELSE LET row == stmt.values[i]
             hit == ConflictRows(db, tbl, row.k)
             failed == [ok |-> FALSE, table |-> tbl, rows |-> <<>>]
         IN  IF row.k = SqlNull /\ ~db.kNull THEN failed
             ELSE IF hit = {}
             THEN InsertRows(db, stmt, Append(tbl, row), touched \cup {Len(tbl) + 1},
                             Append(returned, <<Len(tbl) + 1>>), i + 1)
             ELSE IF ~stmt.conflict.present THEN failed
             ELSE IF stmt.conflict.do = "NOTHING"
             THEN InsertRows(db, stmt, tbl, touched, returned, i + 1)
             ELSE LET j == CHOOSE x \in hit : TRUE
                  IN  IF j \in touched THEN failed
                      ELSE InsertRows(db, stmt,
                                      [tbl EXCEPT ![j] = UpdatedRow(tbl[j], row, stmt.conflict.set)],
                                      touched \cup {j}, Append(returned, <<j>>), i + 1)

ExecuteInsert(db, tbl, stmt) ==
    IF stmt.conflict.present /\ stmt.conflict.target # ArbiterIndex(db)
    THEN [ok |-> FALSE, table |-> tbl, rows |-> <<>>]
    ELSE LET res == InsertRows(db, stmt, tbl, {}, <<>>, 1)
         IN  [res EXCEPT !.rows = IF stmt.returning = <<>> THEN <<>> ELSE res.rows]

\* ------------------------------------------------------------------ state
VARIABLES
    model,              \* the Django model handed to save / upsert
    db,                 \* the table's unique index and the nullability of k
    table,              \* committed rows, in insertion order; a row's id is its position
    work,               \* the rows as seen inside the connection's open transaction
    pc,                 \* position in DataFrameDatabaseSaver.save / upsert
    entry,              \* the method the caller invoked: "save" or "upsert"
    dataframe,          \* argument dataframe
    returning_columns,  \* argument returning_columns; <<>> stands for None
    buffer,             \* the StringIO buffer of save
    query,              \* the statement upsert builds
    fetched,            \* the rows the cursor holds after execute
    ops,                \* calls made on the connection and its cursors by this call
    attempts,           \* the attempts of this call, in order
    outcome,            \* "none" while running, then "returned" or "raised"
    retval,             \* value returned
    error,              \* exception raised to the caller
    table0,             \* the committed rows when the call began
    saves               \* the number of calls made so far

persistVars == <<model, db, table, work, pc, entry, dataframe, returning_columns, buffer,
                 query, fetched, ops, attempts, outcome, retval, error, table0, saves>>

VARIABLES
    initial_data,       \* DataFrameSerializer.initial_data
    fields,             \* the serializer's writable fields, in declaration order
    has_validated,      \* hasattr(self, '_validated_data')
    validated,          \* self._validated_data
    errors,             \* self._errors: error key -> messages
    lastCall,           \* the last call made on the serializer and how it ended
    validators,         \* Meta.validators: the dataset-level validators, in order
    validate_hook,      \* what the serializer's validate() does: "identity" or "raises"
    runs                \* how many times is_valid has run the validation

serConfig == <<initial_data, fields, validators, validate_hook>>
serVars == <<serConfig, has_validated, validated, errors, lastCall, runs>>

VARIABLES
    class_validators,   \* BasePandasValidator._validators, the list set on the class
    instances,          \* the Column instances constructed so far, in order
    list_data,          \* the column handed to the last ListColumn._validate
    list_result         \* how that call ended

colVars == <<class_validators, instances, list_data, list_result>>

NoValue == [none |-> TRUE, rows |-> <<>>]
ListValue(rows) == [none |-> FALSE, rows |-> rows]
NoError == [attempt |-> "none", step |-> "none"]
NoQuery == [table |-> "", columns |-> <<>>, values |-> <<>>,
            conflict |-> [present |-> FALSE, target |-> <<>>, do |-> "", set |-> {}],
            returning |-> <<>>]

ReturningChoices == {<<>>, <<"id">>}

NewAttempt(kind) ==
    [kind |-> kind, failed |-> "none", cause |-> "none", end |-> "none",
     commitIssued |-> FALSE, committed |-> FALSE]

Last(s) == s[Len(s)]
SetLast(s, x) == [s EXCEPT ![Len(s)] = x]

PersistInit ==
    /\ db \in Databases
    /\ model \in {DjangoModel(db.kNull, ut) : ut \in {<<>>, <<(<<"k">>)>>}}
    /\ table = <<>>
    /\ work = <<>>
    /\ pc = "idle"
    /\ entry = "save"
    /\ dataframe = <<>>
    /\ returning_columns = <<>>
    /\ buffer = <<>>
    /\ query = NoQuery
    /\ fetched = <<>>
    /\ ops = <<>>
    /\ attempts = <<>>
    /\ outcome = "none"
    /\ retval = NoValue
    /\ error = NoError
    /\ table0 = <<>>
    /\ saves = 0

\* leaving the call: `return value` or an exception reaching the caller
Return(value) ==
    /\ pc' = "idle"
    /\ outcome' = "returned"
    /\ retval' = value
    /\ error' = NoError

Raise(step) ==
    /\ pc' = "idle"
    /\ outcome' = "raised"
    /\ retval' = NoValue
    /\ error' = [attempt |-> Last(attempts').kind, step |-> step]

Running == UNCHANGED <<outcome, retval, error>>

\* control enters saver.save(...) or saver.upsert(...)
StartCall(m, df, rc) ==
    /\ saves' = saves + 1
    /\ entry' = m
    /\ dataframe' = df
    /\ returning_columns' = rc
    /\ pc' = IF m = "save" THEN "save_10" ELSE "upsert_30"
    /\ buffer' = <<>>
    /\ query' = NoQuery
    /\ fetched' = <<>>
    /\ ops' = <<>>
    /\ attempts' = <<>>
    /\ outcome' = "none"
    /\ retval' = NoValue
    /\ error' = NoError
    /\ table0' = table
    /\ UNCHANGED <<model, db, table, work>>

\* a caller invokes saver.save(...) or saver.upsert(...) directly
Call ==
    /\ pc = "idle"
    /\ saves < MaxSaves
    /\ \E m \in {"save", "upsert"}, df \in DataFrames(Payloads[saves + 1]),
          rc \in ReturningChoices : StartCall(m, df, rc)
    /\ UNCHANGED <<serVars, colVars>>

LogOp(name) == ops' = Append(ops, name)

Fail(step, cause) ==
    attempts' = SetLast(attempts, [Last(attempts) EXCEPT !.failed = step, !.cause = cause])

\* a saver that has lost its empty check
DataFrameEmptyNever(df) == FALSE

\* dataframe.empty
DataFrameEmpty(df) == df = <<>>

\* ------------------------------------------------------------------ DataFrameDatabaseSaver.save
\* lines 10-17: the empty check, then the CSV buffer and the COPY statement
SaveStart ==
    /\ pc = "save_10"
    /\ IF DataFrameEmpty(dataframe)
       THEN /\ Return(IF returning_columns # <<>> THEN ListValue(<<>>) ELSE NoValue)
            /\ UNCHANGED <<buffer, attempts>>
       ELSE /\ buffer' = to_csv(dataframe)
            /\ attempts' = Append(attempts, NewAttempt("copy"))
            /\ pc' = "save_19"
            /\ Running
    /\ UNCHANGED <<model, db, table, work, entry, dataframe, returning_columns, query,
                   fetched, ops, table0, saves>>
    /\ UNCHANGED <<serVars, colVars>>

\* line 19: with self._connection.cursor() as cursor
SaveCursor ==
    /\ pc = "save_19"
    /\ LogOp("cursor")
    /\ \E ok \in BOOLEAN :
        IF ok THEN pc' = "save_20" /\ UNCHANGED attempts
        ELSE pc' = "save_24" /\ Fail("cursor", "env")
    /\ Running
    /\ UNCHANGED <<model, db, table, work, entry, dataframe, returning_columns, buffer,
                   query, fetched, table0, saves>>
    /\ UNCHANGED <<serVars, colVars>>

\* line 20: cursor.copy_expert(sql=copy_query, file=buffer)
SaveCopyExpert ==
    /\ pc = "save_20"
    /\ LogOp("copy_expert")
    /\ LET res == CopyRows(db, work, buffer, 1)
       IN  \E fault \in BOOLEAN :
            IF res.ok /\ ~fault
            THEN work' = res.table /\ pc' = "save_21" /\ UNCHANGED attempts
            ELSE /\ UNCHANGED work
                 /\ pc' = "save_24"
                 /\ Fail("copy_expert", IF res.ok THEN "env" ELSE "db")
    /\ Running
    /\ UNCHANGED <<model, db, table, entry, dataframe, returning_columns, buffer, query,
                   fetched, table0, saves>>
    /\ UNCHANGED <<serVars, colVars>>

\* line 21: self._connection.commit()
SaveCommit ==
    /\ pc = "save_21"
    /\ LogOp("commit")
    /\ \E ok \in BOOLEAN :
        IF ok
        THEN /\ table' = work
             /\ attempts' = SetLast(attempts, [Last(attempts) EXCEPT !.commitIssued = TRUE,
                                                  !.committed = TRUE, !.end = "commit"])
             /\ pc' = "save_22"
        ELSE /\ UNCHANGED table
             /\ attempts' = SetLast(attempts, [Last(attempts) EXCEPT !.commitIssued = TRUE,
                                                  !.failed = "commit", !.cause = "env"])
             /\ pc' = "save_24"
    /\ Running
    /\ UNCHANGED <<model, db, work, entry, dataframe, returning_columns, buffer, query,
                   fetched, table0, saves>>
    /\ UNCHANGED <<serVars, colVars>>

\* lines 22-23: buffer.close(); return [] if returning_columns else None
SaveReturn ==
    /\ pc = "save_22"
    /\ buffer' = <<>>
    /\ Return(IF returning_columns # <<>> THEN ListValue(<<>>) ELSE NoValue)
    /\ UNCHANGED <<model, db, table, work, entry, dataframe, returning_columns, query,
                   fetched, ops, attempts, table0, saves>>
    /\ UNCHANGED <<serVars, colVars>>

\* an except clause that goes on to the upsert without rolling back
SaveExceptNoRollback ==
    /\ pc = "save_24"
    /\ pc' = "upsert_30"
    /\ Running
    /\ UNCHANGED <<model, db, table, work, entry, dataframe, returning_columns, buffer,
                   query, fetched, ops, attempts, table0, saves>>
    /\ UNCHANGED <<serVars, colVars>>

\* an except clause that rolls back and re-raises instead of degrading to the upsert
SaveExceptReraise ==
    /\ pc = "save_24"
    /\ LogOp("rollback")
    /\ work' = table
    /\ attempts' = SetLast(attempts, [Last(attempts) EXCEPT !.end = "rollback"])
    /\ Raise(Last(attempts).failed)
    /\ UNCHANGED <<model, db, table, entry, dataframe, returning_columns, buffer, query,
                   fetched, table0, saves>>
    /\ UNCHANGED <<serVars, colVars>>

\* lines 24-27: except Exception: rollback, then return self.upsert(...)
SaveExcept ==
    /\ pc = "save_24"
    /\ LogOp("rollback")
    /\ work' = table
    /\ attempts' = SetLast(attempts, [Last(attempts) EXCEPT !.end = "rollback"])
    /\ pc' = "upsert_30"
    /\ Running
    /\ UNCHANGED <<model, db, table, entry, dataframe, returning_columns, buffer, query,
                   fetched, table0, saves>>
    /\ UNCHANGED <<serVars, colVars>>

\* ------------------------------------------------------------------ DataFrameDatabaseSaver.upsert
\* lines 37-43
ConflictStatement(m, columns) ==
    LET unique_columns == get_unique_field_names(m)
        upsert_clause == get_upsert_clause_sql(m, columns)
    IN  IF unique_columns # <<>>
        THEN [present |-> TRUE, target |-> unique_columns,
              do |-> IF upsert_clause # {} THEN "UPDATE" ELSE "NOTHING",
              set |-> upsert_clause]
        ELSE [present |-> FALSE, target |-> <<>>, do |-> "", set |-> {}]

\* line 45; <<>> is the empty string
ReturningStatement(rc) == IF rc # <<>> THEN rc ELSE <<>>

\* lines 30-45: the empty check, then the conflict and returning clauses
UpsertStart ==
    /\ pc = "upsert_30"
    /\ IF DataFrameEmpty(dataframe)
       THEN /\ Return(IF returning_columns # <<>> THEN ListValue(<<>>) ELSE NoValue)
            /\ UNCHANGED <<query, attempts>>
       ELSE /\ query' = [NoQuery EXCEPT !.conflict = ConflictStatement(model, DataFrameColumns),
                                        !.returning = ReturningStatement(returning_columns)]
            /\ attempts' = Append(attempts, NewAttempt("upsert"))
            /\ pc' = "upsert_47"
            /\ Running
    /\ UNCHANGED <<model, db, table, work, entry, dataframe, returning_columns, buffer,
                   fetched, ops, table0, saves>>
    /\ UNCHANGED <<serVars, colVars>>

\* line 47: with self._connection.cursor() as cursor; a failure leaves upsert at once
UpsertCursor ==
    /\ pc = "upsert_47"
    /\ LogOp("cursor")
    /\ \E ok \in BOOLEAN :
        IF ok THEN pc' = "upsert_48" /\ UNCHANGED attempts /\ Running
        ELSE Fail("cursor", "env") /\ Raise("cursor")
    /\ UNCHANGED <<model, db, table, work, entry, dataframe, returning_columns, buffer,
                   query, fetched, table0, saves>>
    /\ UNCHANGED <<serVars, colVars>>

\* lines 48-57: the INSERT statement with its mogrified rows, outside the try block
UpsertValues ==
    /\ pc = "upsert_48"
    /\ LogOp("mogrify")
    /\ \E ok \in BOOLEAN :
        IF ok
        THEN /\ query' = [query EXCEPT !.table = model.db_table,
                                       !.columns = DataFrameColumns,
                                       !.values = get_insert_values_sql(dataframe)]
             /\ pc' = "upsert_60"
             /\ UNCHANGED attempts
             /\ Running
        ELSE /\ UNCHANGED query
             /\ Fail("mogrify", "env")
             /\ Raise("mogrify")
    /\ UNCHANGED <<model, db, table, work, entry, dataframe, returning_columns, buffer,
                   fetched, table0, saves>>
    /\ UNCHANGED <<serVars, colVars>>

\* line 60: cursor.execute(query)
UpsertExecute ==
    /\ pc = "upsert_60"
    /\ LogOp("execute")
    /\ LET res == ExecuteInsert(db, work, query)
       IN  \E fault \in BOOLEAN :
            IF res.ok /\ ~fault
            THEN /\ work' = res.table
                 /\ fetched' = res.rows
                 /\ pc' = "upsert_61"
                 /\ UNCHANGED attempts
            ELSE /\ UNCHANGED <<work, fetched>>
                 /\ pc' = "upsert_64"
                 /\ Fail("execute", IF res.ok THEN "env" ELSE "db")
    /\ Running
    /\ UNCHANGED <<model, db, table, entry, dataframe, returning_columns, buffer, query,
                   table0, saves>>
    /\ UNCHANGED <<serVars, colVars>>

\* line 61: self._connection.commit()
UpsertCommit ==
    /\ pc = "upsert_61"
    /\ LogOp("commit")
    /\ \E ok \in BOOLEAN :
        IF ok
        THEN /\ table' = work
             /\ attempts' = SetLast(attempts, [Last(attempts) EXCEPT !.commitIssued = TRUE,
                                                  !.committed = TRUE, !.end = "commit"])
             /\ pc' = "upsert_62"
        ELSE /\ UNCHANGED table
             /\ attempts' = SetLast(attempts, [Last(attempts) EXCEPT !.commitIssued = TRUE,
                                                  !.failed = "commit", !.cause = "env"])
             /\ pc' = "upsert_64"
    /\ Running
    /\ UNCHANGED <<model, db, work, entry, dataframe, returning_columns, buffer, query,
                   fetched, table0, saves>>
    /\ UNCHANGED <<serVars, colVars>>

\* line 62: if returning_columns; without them upsert falls off its end and returns None
UpsertAfterCommit ==
    /\ pc = "upsert_62"
    /\ IF returning_columns # <<>>
       THEN pc' = "upsert_63" /\ Running
       ELSE Return(NoValue)
    /\ UNCHANGED <<model, db, table, work, entry, dataframe, returning_columns, buffer,
                   query, fetched, ops, attempts, table0, saves>>
    /\ UNCHANGED <<serVars, colVars>>

\* line 63: return cursor.fetchall(), still inside the try block
UpsertFetch ==
    /\ pc = "upsert_63"
    /\ LogOp("fetchall")
    /\ \E ok \in BOOLEAN :
        IF ok THEN Return(ListValue(fetched)) /\ UNCHANGED attempts
        ELSE pc' = "upsert_64" /\ Fail("fetchall", "env") /\ Running
    /\ UNCHANGED <<model, db, table, work, entry, dataframe, returning_columns, buffer,
                   query, fetched, table0, saves>>
    /\ UNCHANGED <<serVars, colVars>>

\* lines 64-67: except Exception: rollback, then raise e
UpsertExcept ==
    /\ pc = "upsert_64"
    /\ LogOp("rollback")
    /\ work' = table
    /\ attempts' = SetLast(attempts, [Last(attempts) EXCEPT
                                         !.end = IF @ = "none" THEN "rollback" ELSE @])
    /\ Raise(Last(attempts).failed)
    /\ UNCHANGED <<model, db, table, entry, dataframe, returning_columns, buffer, query,
                   fetched, table0, saves>>
    /\ UNCHANGED <<serVars, colVars>>

\* ------------------------------------------------------------------ pandas Series and DataFrame
\* A Series is the sequence of its elements [i |-> index label, x |-> value]; a
\* DataFrame is [cols |-> column names, rows |-> <<[i |-> label, c |-> name -> value]>>].
\* Integers are kept as their canonical numerals.
NaN == "NaN"
MaxRuns == 2
\* the limit given as max_value, min_value, max_length or min_length
MaxK == 2

\* With(x, F) is F(x) with x computed once
With(x, F(_)) == CHOOSE y \in {F(v) : v \in {x}} : TRUE
IsNull(x) == x = None \/ x = NaN

Series(values) == [j \in 1..Len(values) |-> [i |-> j - 1, x |-> values[j]]]
Labels(series) == {series[j].i : j \in 1..Len(series)}
ValueAt(series, label) ==
    IF label \in Labels(series) THEN (CHOOSE e \in Range(series) : e.i = label).x ELSE NaN

EmptyFrame == [cols |-> <<>>, rows |-> <<>>]
FrameEmpty(f) == f.cols = <<>> \/ f.rows = <<>>
Shape0(f) == Len(f.rows)

\* ret[name] = series: the series is aligned on the frame's index, except that a
\* frame without rows takes the index of a non-empty series
SetColumn(f, name, series) ==
    LET cols == IF name \in Range(f.cols) THEN f.cols ELSE Append(f.cols, name)
    IN  IF f.rows = <<>> /\ series # <<>>
        THEN [cols |-> cols,
              rows |-> [j \in 1..Len(series) |->
                          [i |-> series[j].i,
                           c |-> [n \in Range(cols) |-> IF n = name THEN series[j].x ELSE NaN]]]]
        ELSE [cols |-> cols,
              rows |-> [j \in 1..Len(f.rows) |->
                          [i |-> f.rows[j].i,
                           c |-> [n \in Range(cols) |->
                                    IF n = name THEN ValueAt(series, f.rows[j].i)
                                    ELSE f.rows[j].c[n]]]]]

\* ret.join(series.to_frame(name), how='inner')
JoinInner(f, name, series) ==
    LET kept == SelectSeq(f.rows, LAMBDA r : r.i \in Labels(series))
        cols == Append(f.cols, name)
    IN  [cols |-> cols,
         rows |-> [j \in 1..Len(kept) |->
                     [i |-> kept[j].i,
                      c |-> [n \in Range(cols) |->
                               IF n = name THEN ValueAt(series, kept[j].i) ELSE kept[j].c[n]]]]]

\* ------------------------------------------------------------------ pandasio/validation/validators.py
Numerals == {"1", "2", "7"}
IntValue == [n \in Numerals |-> CASE n = "1" -> 1 [] n = "2" -> 2 [] n = "7" -> 7]

\* an elementwise comparison of a column with the limit: a null element compares False
Greater(x, limit) == ~IsNull(x) /\ IntValue[x] > limit
Less(x, limit) == ~IsNull(x) /\ IntValue[x] < limit
LessEqual(x, limit) == ~IsNull(x) /\ IntValue[x] <= limit
GreaterEqual(x, limit) == ~IsNull(x) /\ IntValue[x] >= limit

\* BaseValidator.__call__: compare(clean(value), limit_value) decides whether to raise
ValidatorCompare(v, data) ==
    IF v.code = "max_value"
    THEN \E j \in 1..Len(data) : Greater(data[j].x, v.limit)
    ELSE \E j \in 1..Len(data) : Less(data[j].x, v.limit)

ValidatorGetValidData(v, data) ==
    IF v.code = "max_value"
    THEN SelectSeq(data, LAMBDA e : LessEqual(e.x, v.limit))
    ELSE SelectSeq(data, LAMBDA e : GreaterEqual(e.x, v.limit))

\* ------------------------------------------------------------------ pandasio/validation/fields.py
\* IntegerField(required, default, allow_null, replace_null, max_value, min_value);
\* an option left out is the empty set, an option given is the singleton of its value
IntegerFieldWith(name, required, default, allow_null, replace_null, max_value, min_value) ==
    [kind |-> "integer", field_name |-> name, source |-> name, required |-> required,
     default |-> default, allow_null |-> allow_null, replace_null |-> replace_null,
     validators |->
        (IF max_value # {} THEN <<[code |-> "max_value", limit |-> CHOOSE l \in max_value : TRUE]>>
         ELSE <<>>)
        \o (IF min_value # {} THEN <<[code |-> "min_value", limit |-> CHOOSE l \in min_value : TRUE]>>
            ELSE <<>>)]

\* an IntegerField without default that rejects nulls
IntegerField(name, required, max_value, min_value) ==
    IntegerFieldWith(name, required, {}, FALSE, {}, max_value, min_value)

\* Field.validate_empty_values. For a column that is absent and not required
\* get_default() raises SkipField (skip) when no default is configured and returns
\* the default otherwise: a plain value, not a column (scalar)
FieldValidateEmptyValues(field, prim) ==
    IF ~prim.present
    THEN IF field.required
         THEN [is_empty |-> TRUE, skip |-> FALSE, scalar |-> FALSE, data |-> <<>>,
               errors |-> {"required"}]
         ELSE [is_empty |-> TRUE, skip |-> field.default = {}, scalar |-> field.default # {},
               data |-> <<>>, errors |-> {}]
    ELSE IF \E j \in 1..Len(prim.series) : IsNull(prim.series[j].x)
    THEN IF field.replace_null # {}
         THEN [is_empty |-> FALSE, skip |-> FALSE, scalar |-> FALSE, errors |-> {},
               data |-> [j \in 1..Len(prim.series) |->
                           IF IsNull(prim.series[j].x)
                           THEN [prim.series[j] EXCEPT !.x = CHOOSE r \in field.replace_null : TRUE]
                           ELSE prim.series[j]]]
         ELSE IF ~field.allow_null
         THEN [is_empty |-> FALSE, skip |-> FALSE, scalar |-> FALSE, errors |-> {"null"},
               data |-> SelectSeq(prim.series, LAMBDA e : ~IsNull(e.x))]
         ELSE [is_empty |-> FALSE, skip |-> FALSE, scalar |-> FALSE, errors |-> {},
               data |-> prim.series]
    ELSE [is_empty |-> FALSE, skip |-> FALSE, scalar |-> FALSE, errors |-> {},
          data |-> prim.series]

\* int(x) of a raw cell; a cell outside the table raises ValueError
IntParse == [x \in {"1", "02", "7"} |-> CASE x = "1" -> "1" [] x = "02" -> "2" [] x = "7" -> "7"]
IsValidElement(field, x) == (field.allow_null /\ IsNull(x)) \/ x \in DOMAIN IntParse
ToInt(x) == IF IsNull(x) THEN None ELSE IntParse[x]

\* IntegerField.to_internal_value on a column of object dtype. In the except branch
\* the kept elements go through astype(int), which raises (crashed) on a kept null
IntegerToInternalValue(field, data) ==
    IF \A j \in 1..Len(data) : IsValidElement(field, data[j].x)
    THEN [crashed |-> FALSE, errors |-> {},
          data |-> [j \in 1..Len(data) |-> [data[j] EXCEPT !.x = ToInt(@)]]]
    ELSE LET valid == SelectSeq(data, LAMBDA e : IsValidElement(field, e.x))
         IN  IF \E j \in 1..Len(valid) : IsNull(valid[j].x)
             THEN [crashed |-> TRUE, errors |-> {"invalid"}, data |-> <<>>]
             ELSE [crashed |-> FALSE, errors |-> {"invalid"},
                   data |-> [j \in 1..Len(valid) |-> [valid[j] EXCEPT !.x = ToInt(@)]]]

\* DateField / DateTimeField(format='%d', allow_null, replace_null)
DateField(name, allow_null, replace_null) ==
    [kind |-> "date", field_name |-> name, source |-> name, required |-> TRUE,
     default |-> {}, allow_null |-> allow_null, replace_null |-> replace_null,
     validators |-> <<>>]
DateTimeField(name, allow_null, replace_null) ==
    [kind |-> "datetime", field_name |-> name, source |-> name, required |-> TRUE,
     default |-> {}, allow_null |-> allow_null, replace_null |-> replace_null,
     validators |-> <<>>]

\* pd.to_datetime(x, format='%d'): the day of January 1900; any other cell does not
\* parse, and a null cell gives NaT
DayParse == [x \in {"1", "02", "7"} |->
                CASE x = "1" -> "1900-01-01" [] x = "02" -> "1900-01-02" [] x = "7" -> "1900-01-07"]
ToDate(x) == DayParse[x]
ToDateTime(x) == DayParse[x] \o " 00:00:00"
Parses(x) == x \in DOMAIN DayParse

\* DateField.to_internal_value: with allow_null the parse is made with
\* errors='coerce' and every NaT becomes self.replace_null (None when not given)
DateToInternalValue(field, data) ==
    IF field.allow_null
    THEN [crashed |-> FALSE, errors |-> {},
          data |-> [j \in 1..Len(data) |->
                      [data[j] EXCEPT !.x = IF Parses(@) THEN ToDate(@)
                                            ELSE IF field.replace_null = {} THEN None
                                            ELSE CHOOSE r \in field.replace_null : TRUE]]]
    ELSE IF \A j \in 1..Len(data) : IsNull(data[j].x) \/ Parses(data[j].x)
    THEN [crashed |-> FALSE, errors |-> {},
          data |-> [j \in 1..Len(data) |->
                      [data[j] EXCEPT !.x = IF IsNull(@) THEN NaN ELSE ToDate(@)]]]
    ELSE LET valid == SelectSeq(data, LAMBDA e : Parses(e.x))
         IN  [crashed |-> FALSE, errors |-> {"invalid"},
              data |-> [j \in 1..Len(valid) |-> [valid[j] EXCEPT !.x = ToDate(@)]]]

\* DateTimeField.to_internal_value: the parse is made with errors='raise'
DateTimeToInternalValue(field, data) ==
    IF \A j \in 1..Len(data) : IsNull(data[j].x) \/ Parses(data[j].x)
    THEN [crashed |-> FALSE, errors |-> {},
          data |-> [j \in 1..Len(data) |->
                      [data[j] EXCEPT !.x = IF ~IsNull(@) THEN ToDateTime(@)
                                            ELSE IF field.allow_null THEN None ELSE NaN]]]
    ELSE LET valid == SelectSeq(data, LAMBDA e : Parses(e.x))
         IN  [crashed |-> FALSE, errors |-> {"invalid"},
              data |-> [j \in 1..Len(valid) |-> [valid[j] EXCEPT !.x = ToDateTime(@)]]]

\* field.to_internal_value(data) of the field's class
FieldToInternalValue(field, data) ==
    CASE field.kind = "integer" -> IntegerToInternalValue(field, data)
      [] field.kind = "date" -> DateToInternalValue(field, data)
      [] field.kind = "datetime" -> DateTimeToInternalValue(field, data)

\* run_validators without get_valid_data: every validator sees the whole column
FieldRunValidatorsNoNarrowing(vs, n, value, errs) ==
    [data |-> value,
     errors |-> errs \cup {vs[j].code : j \in {j \in n..Len(vs) : ValidatorCompare(vs[j], value)}}]

\* Field.run_validators: a violated validator narrows the column and adds its error
RECURSIVE FieldRunValidators(_, _, _, _)
FieldRunValidators(vs, n, value, errs) ==
    IF n > Len(vs) THEN [data |-> value, errors |-> errs]
    ELSE IF ValidatorCompare(vs[n], value)
    THEN FieldRunValidators(vs, n + 1, ValidatorGetValidData(vs[n], value), errs \cup {vs[n].code})
    ELSE FieldRunValidators(vs, n + 1, value, errs)

\* Field.run_validation; the errors of the three stages end up in field.errors.
\* skip: SkipField raised; scalar: a default returned in place of a column;
\* crashed: an exception that is no validation error left to_internal_value
FieldRunValidation(field, prim) ==
    With(FieldValidateEmptyValues(field, prim), LAMBDA e :
        IF e.skip \/ e.is_empty
        THEN [skip |-> e.skip, scalar |-> e.scalar, crashed |-> FALSE, value |-> e.data,
              errors |-> e.errors]
        ELSE With(FieldToInternalValue(field, e.data), LAMBDA t :
             IF t.crashed
             THEN [skip |-> FALSE, scalar |-> FALSE, crashed |-> TRUE, value |-> <<>>,
                   errors |-> e.errors \cup t.errors]
             ELSE With(FieldRunValidators(field.validators, 1, t.data, {}), LAMBDA v :
                    [skip |-> FALSE, scalar |-> FALSE, crashed |-> FALSE, value |-> v.data,
                     errors |-> e.errors \cup t.errors \cup v.errors])))

\* ------------------------------------------------------------------ pandasio/validation/dataframes.py
NON_FIELD_ERRORS_KEY == "non_field_errors"
NoErrors == <<>>
SetError(errs, key, msgs) ==
    [e \in DOMAIN errs \cup {key} |-> IF e = key THEN msgs ELSE errs[e]]

\* field.get_value(data): data.get(field_name, empty)
GetValue(field, data) ==
    IF field.field_name \in DOMAIN data.data
    THEN [present |-> TRUE, series |-> Series(data.data[field.field_name])]
    ELSE [present |-> FALSE, series |-> <<>>]

\* one pass of the loop of to_internal_value (lines 56-84) over field n
\* crashed: field.run_validation raised, or validated_value.empty was asked of a
\* default that is no column; the later fields are not processed
ToInternalValueStep(data, field, st) ==
    With(FieldRunValidation(field, GetValue(field, data)), LAMBDA r :
        IF r.crashed \/ r.scalar THEN [st EXCEPT !.crashed = TRUE] ELSE
        LET df_valid == st.df_valid /\ ~r.skip /\ r.value # <<>>
            is_not_valid == ~(data.n = Len(r.value) /\ Len(r.value) = Shape0(st.ret))
            ret == IF r.skip THEN st.ret
                   ELSE IF df_valid /\ ~FrameEmpty(st.ret) /\ is_not_valid
                   THEN JoinInner(st.ret, field.source, r.value)
                   ELSE SetColumn(st.ret, field.source, r.value)
            errs == IF r.skip \/ r.errors # {}
                    THEN SetError(st.errors, field.field_name, r.errors)
                    ELSE st.errors
        IN  [ret |-> ret, df_valid |-> df_valid, errors |-> errs, crashed |-> FALSE])

RECURSIVE ToInternalValueLoop(_, _, _, _)
ToInternalValueLoop(data, fs, n, st) ==
    IF n > Len(fs) \/ st.crashed THEN st
    ELSE With(ToInternalValueStep(data, fs[n], st), LAMBDA next :
            ToInternalValueLoop(data, fs, n + 1, next))

\* DataFrameSerializer.to_internal_value
to_internal_value(data, fs) ==
    IF ~data.frame
    THEN [raised |-> TRUE, crashed |-> FALSE, detail |-> {"invalid"}, data |-> EmptyFrame,
          errors |-> NoErrors]
    ELSE With(ToInternalValueLoop(data, fs, 1,
                    [ret |-> EmptyFrame, df_valid |-> TRUE, errors |-> NoErrors,
                     crashed |-> FALSE]), LAMBDA st :
            [raised |-> FALSE, crashed |-> st.crashed, detail |-> {},
             data |-> IF st.df_valid THEN st.ret ELSE EmptyFrame,
             errors |-> st.errors])

\* UniqueTogetherValidator(columns): a.duplicated(subset=b), a row being a duplicate
\* when an earlier row holds the same values in the columns
UniqueTogetherValidator(columns) == [code |-> "duplicated", limit |-> columns]
Duplicated(f, columns, j) ==
    \E i \in 1..(j - 1) : \A c \in Range(columns) : f.rows[i].c[c] = f.rows[j].c[c]
UniqueCompare(v, f) == \E j \in 1..Len(f.rows) : Duplicated(f, v.limit, j)
UniqueGetValidData(v, f) ==
    [f EXCEPT !.rows = [j \in 1..Len(SelectSeq([i \in 1..Len(f.rows) |-> i],
                                               LAMBDA i : ~Duplicated(f, v.limit, i))) |->
                          f.rows[SelectSeq([i \in 1..Len(f.rows) |-> i],
                                           LAMBDA i : ~Duplicated(f, v.limit, i))[j]]]]

\* DataFrameSerializer.run_validators: a violated validator narrows the dataset and
\* assigns its message to the non-field key; duplicated() raises KeyError (crashed)
\* on a dataset that lacks one of the columns
RECURSIVE run_validators(_, _, _, _)
run_validators(vs, n, data, errs) ==
    IF n > Len(vs) THEN [crashed |-> FALSE, data |-> data, errors |-> errs]
    ELSE IF ~(Range(vs[n].limit) \subseteq Range(data.cols))
    THEN [crashed |-> TRUE, data |-> data, errors |-> errs]
    ELSE IF UniqueCompare(vs[n], data)
    THEN With(UniqueGetValidData(vs[n], data), LAMBDA narrowed :
            run_validators(vs, n + 1, narrowed,
                           SetError(errs, NON_FIELD_ERRORS_KEY, {vs[n].code})))
    ELSE run_validators(vs, n + 1, data, errs)

\* DataFrameSerializer.run_validation: to_internal_value, run_validators, validate.
\* raised: a ValidationError leaves run_validation, errors being what self._errors
\* holds by then
run_validation(data, fs, vs, hook) ==
    With(to_internal_value(data, fs), LAMBDA t :
        IF t.raised \/ t.crashed THEN t
        ELSE With(run_validators(vs, 1, t.data, t.errors), LAMBDA v :
                IF v.crashed
                THEN [raised |-> FALSE, crashed |-> TRUE, detail |-> {}, data |-> EmptyFrame,
                      errors |-> v.errors]
                ELSE IF hook = "raises"
                THEN [raised |-> TRUE, crashed |-> FALSE, detail |-> {"validate"},
                      data |-> EmptyFrame, errors |-> v.errors]
                ELSE [raised |-> FALSE, crashed |-> FALSE, detail |-> {}, data |-> v.data,
                      errors |-> v.errors]))

\* lines 106-111 of is_valid: run_validation runs unless a result is stored already.
\* An exception that is no ValidationError (crashed) leaves is_valid without a
\* result being stored
ValidationRun ==
    With(run_validation(initial_data, fields, validators, validate_hook), LAMBDA r :
        IF r.crashed
        THEN [ran |-> 1, crashed |-> TRUE, validated |-> validated, errors |-> r.errors]
        ELSE IF r.raised
        THEN [ran |-> 1, crashed |-> FALSE, validated |-> EmptyFrame,
              errors |-> SetError(r.errors, NON_FIELD_ERRORS_KEY, r.detail)]
        ELSE [ran |-> 1, crashed |-> FALSE, validated |-> r.data, errors |-> r.errors])

\* is_valid without the test of line 106: every call validates again
ValidationAlways == ValidationRun

Validation ==
    IF has_validated
    THEN [ran |-> 0, crashed |-> FALSE, validated |-> validated, errors |-> errors]
    ELSE ValidationRun

\* lines 113-116 of is_valid
IsValidResult(errs, raise_exception) ==
    IF DOMAIN errs # {} /\ raise_exception THEN "raised"
    ELSE IF DOMAIN errs = {} THEN "True" ELSE "False"

\* what a call of is_valid leaves in the serializer
Validate(r) ==
    /\ has_validated' = (has_validated \/ ~r.crashed)
    /\ validated' = r.validated
    /\ errors' = r.errors
    /\ runs' = runs + r.ran

\* DataFrameSerializer.is_valid(raise_exception)
IsValid ==
    /\ pc = "idle"
    /\ \E raise_exception \in BOOLEAN, r \in {Validation} :
        /\ runs + r.ran <= MaxRuns
        /\ Validate(r)
        /\ lastCall' = [op |-> "is_valid", raise_exception |-> raise_exception,
                        result |-> IF r.crashed THEN "error"
                                   ELSE IsValidResult(r.errors, raise_exception),
                        ran |-> r.ran]
    /\ UNCHANGED serConfig
    /\ UNCHANGED persistVars
    /\ UNCHANGED colVars

\* the dataframe handed to the saver: the rows of self.validated_data
SaverDataFrame(f) ==
    [j \in 1..Len(f.rows) |-> [k |-> f.rows[j].c["k"], v |-> f.rows[j].c["v"]]]

\* DataFrameSerializer.save: self.validated_data raises AssertionError before the
\* first is_valid; otherwise saver.save(dataframe=self.validated_data, model=...)
SerializerSave ==
    /\ pc = "idle"
    /\ saves < MaxSaves
    /\ IF has_validated
       THEN /\ StartCall("save", SaverDataFrame(validated), <<>>)
            /\ lastCall' = [op |-> "save", raise_exception |-> FALSE, result |-> "called",
                            ran |-> 0]
       ELSE /\ lastCall' = [op |-> "save", raise_exception |-> FALSE, result |-> "raised",
                            ran |-> 0]
            /\ UNCHANGED persistVars
    /\ UNCHANGED <<serConfig, has_validated, validated, errors, runs>>
    /\ UNCHANGED colVars

\* BaseDataFrameView.create: if serializer.is_valid(raise_exception=True): serializer.save()
ViewCreate ==
    /\ pc = "idle"
    /\ saves < MaxSaves
    /\ \E r \in {Validation} :
        /\ runs + r.ran <= MaxRuns
        /\ Validate(r)
        /\ IF ~r.crashed /\ IsValidResult(r.errors, TRUE) = "True"
           THEN /\ StartCall("save", SaverDataFrame(r.validated), <<>>)
                /\ lastCall' = [op |-> "create", raise_exception |-> TRUE, result |-> "called",
                                ran |-> r.ran]
           ELSE /\ lastCall' = [op |-> "create", raise_exception |-> TRUE,
                                result |-> IF r.crashed THEN "error" ELSE "raised",
                                ran |-> r.ran]
                /\ UNCHANGED persistVars
    /\ UNCHANGED serConfig
    /\ UNCHANGED colVars

Next ==
    \/ Call
    \/ SaveStart \/ SaveCursor \/ SaveCopyExpert \/ SaveCommit \/ SaveReturn \/ SaveExcept
    \/ UpsertStart \/ UpsertCursor \/ UpsertValues \/ UpsertExecute \/ UpsertCommit
    \/ UpsertAfterCommit \/ UpsertFetch \/ UpsertExcept

\* ------------------------------------------------------------------ pandasio/validation/columns.py
NoListResult == [called |-> FALSE, raised |-> FALSE, errors |-> <<>>, data |-> <<>>]

\* a process in which no Column has been constructed
ColumnsInit ==
    /\ class_validators = <<>>
    /\ instances = <<>>
    /\ list_data = <<>>
    /\ list_result = NoListResult

MaxColumns == 2
MaxCells == 2
MaxElems == 2
ColumnClasses == {"IntegerColumn", "FloatColumn", "StringColumn", "ListColumn"}

\* the validators the constructor of a class appends for its max and min option,
\* maximum first (IntegerColumn, StringColumn and ListColumn __init__; FloatColumn
\* inherits IntegerColumn's)
DeclaredValidators(cls, max, min) ==
    LET byValue == cls \in {"IntegerColumn", "FloatColumn"}
    IN  (IF max # {}
         THEN <<[code |-> IF byValue THEN "max_value" ELSE "max_length",
                 limit |-> CHOOSE l \in max : TRUE]>>
         ELSE <<>>)
        \o (IF min # {}
            THEN <<[code |-> IF byValue THEN "min_value" ELSE "min_length",
                    limit |-> CHOOSE l \in min : TRUE]>>
            ELSE <<>>)

\* BasePandasValidator.validators of an instance: hasattr(self, '_validators') finds
\* the list set on the class, so the property returns that list
InstanceValidators(inst) == class_validators

\* Column(**kwargs) of one of the classes; self.validators.append(...) appends to the
\* list the property returns. A ListColumn is given child=IntegerColumn()
NewColumn ==
    /\ Len(instances) < MaxColumns
    /\ \E cls \in ColumnClasses, max \in {{}, {MaxK}}, min \in {{}, {MaxK}} :
        /\ instances' = Append(instances,
                               [cls |-> cls, max |-> max, min |-> min,
                                child |-> IF cls = "ListColumn" THEN "IntegerColumn" ELSE "none"])
        /\ class_validators' = InstanceValidators([cls |-> cls]) \o DeclaredValidators(cls, max, min)
    /\ UNCHANGED <<list_data, list_result>>
    /\ UNCHANGED <<persistVars, serVars>>

\* self.child.run_validation(pd.Series(child)) for child = IntegerColumn(): _validate
\* raises ValidationError('invalid') when astype(int) fails on an element
ChildFails(cell) == \E j \in 1..Len(cell) : cell[j] \notin DOMAIN IntParse
ChildValue(cell) == [j \in 1..Len(cell) |-> IntParse[cell[j]]]

\* the loop of data.apply(lambda x: validate(x, idx)) in run_child_validation: idx is
\* passed by value and stays -1; validate adds 1 to its own copy i
RECURSIVE ChildValidationLoop(_, _, _, _, _)
ChildValidationLoop(data, n, idx, errs, out) ==
    IF n > Len(data) THEN [errors |-> errs, data |-> out]
    ELSE LET i == idx + 1
         IN  IF ChildFails(data[n])
             THEN ChildValidationLoop(data, n + 1, idx, SetError(errs, i, {"invalid"}),
                                      Append(out, <<None>>))
             ELSE ChildValidationLoop(data, n + 1, idx, errs, Append(out, ChildValue(data[n])))

\* ListColumn.run_child_validation: the column of validated cells, or ValidationError
\* with the errors collected
run_child_validation(data) ==
    With(ChildValidationLoop(data, 1, -1, <<>>, <<>>), LAMBDA r :
        IF DOMAIN r.errors = {}
        THEN [called |-> TRUE, raised |-> FALSE, errors |-> <<>>, data |-> r.data]
        ELSE [called |-> TRUE, raised |-> TRUE, errors |-> r.errors, data |-> <<>>])

ListCells == SeqsUpTo({"02", "x"}, MaxElems)
ListColumnData == SeqsUpTo(ListCells, MaxCells)

\* ListColumn._validate on a column whose cells are lists (allow_empty and allow_null
\* left at their defaults), in a process where no constraint has been declared
ListValidate ==
    /\ class_validators = <<>>
    /\ \E j \in 1..Len(instances) : instances[j].cls = "ListColumn"
    /\ \E data \in ListColumnData :
        /\ list_data' = data
        /\ list_result' = run_child_validation(data)
    /\ UNCHANGED <<class_validators, instances>>
    /\ UNCHANGED <<persistVars, serVars>>

\* the saver driven directly: no serializer is involved
NotADataFrame == [frame |-> FALSE, n |-> 0, data |-> <<>>]
NoCall == [op |-> "none", raise_exception |-> FALSE, result |-> "none", ran |-> 0]

Init ==
    /\ PersistInit
    /\ initial_data = NotADataFrame
    /\ fields = <<>>
    /\ has_validated = FALSE
    /\ validated = EmptyFrame
    /\ errors = NoErrors
    /\ lastCall = NoCall
    /\ validators = <<>>
    /\ validate_hook = "identity"
    /\ runs = 0
    /\ ColumnsInit

vars == <<persistVars, serVars, colVars>>

Spec == Init /\ [][Next]_vars

\* the Column classes alone: constructions and runs of ListColumn._validate
NextColumns == NewColumn \/ ListValidate

ColumnsSpecInit ==
    /\ PersistInit
    /\ db.index = "plain" /\ ~db.kNull /\ model.unique_together = <<>>
    /\ initial_data = NotADataFrame
    /\ fields = <<>>
    /\ has_validated = FALSE
    /\ validated = EmptyFrame
    /\ errors = NoErrors
    /\ lastCall = NoCall
    /\ validators = <<>>
    /\ validate_hook = "identity"
    /\ runs = 0
    /\ ColumnsInit

SpecColumns == ColumnsSpecInit /\ [][NextColumns]_vars

\* ------------------------------------------------------------------ a serializer over raw input
MaxRawRows == 2
RawKCells == {"02", "7", "x", None}
RawVCells == {"1", "x"}

\* what a caller passes as data=: something that is not a DataFrame, or a DataFrame
\* of n rows holding any of the columns k and v
RawInputs ==
    {NotADataFrame} \cup
    UNION {UNION {{[frame |-> TRUE, n |-> n, data |-> d] :
                     d \in [cs -> UNION {[1..n -> RawKCells], [1..n -> RawVCells]}]} :
                  cs \in SUBSET {"k", "v"}} :
           n \in 0..MaxRawRows}

WellTyped(d) ==
    /\ "k" \in DOMAIN d.data => \A j \in 1..d.n : d.data["k"][j] \in RawKCells
    /\ "v" \in DOMAIN d.data => \A j \in 1..d.n : d.data["v"][j] \in RawVCells

\* the declared fields of the serializer class, in declaration order
FieldSets ==
    {<<IntegerField("k", rk, mk, {}), IntegerField("v", rv, {}, {})>> :
        rk \in BOOLEAN, rv \in BOOLEAN, mk \in {{}, {MaxK}}}

SerializerInit ==
    /\ PersistInit
    /\ initial_data \in {d \in RawInputs : WellTyped(d)}
    /\ fields \in FieldSets
    /\ has_validated = FALSE
    /\ validated = EmptyFrame
    /\ errors = NoErrors
    /\ lastCall = NoCall
    /\ validators = <<>>
    /\ validate_hook = "identity"
    /\ runs = 0
    /\ ColumnsInit

\* serializer.save() passes no returning_columns, so the saver never fetches
NextSerializer ==
    \/ IsValid \/ SerializerSave \/ ViewCreate
    \/ SaveStart \/ SaveCursor \/ SaveCopyExpert \/ SaveCommit \/ SaveReturn \/ SaveExcept
    \/ UpsertStart \/ UpsertCursor \/ UpsertValues \/ UpsertExecute \/ UpsertCommit
    \/ UpsertAfterCommit \/ UpsertExcept

SpecSerializer == SerializerInit /\ [][NextSerializer]_vars

\* ------------------------------------------------------------------ validation alone
\* A serializer over the columns k, v and w that is only asked is_valid. Column k
\* takes every option of an IntegerField; the dataset-level validators and the
\* validate() hook vary over plain fields.
RawCells == {"1", "02", "7", "x", None}
ReplaceNull == "7"
\* a min_value above max_value: a value can violate both constraints
HighMin == MaxK + 6
Default == "1"

\* a column of n cells, or no column
ColumnOptions(n, cells) == {{}} \cup {{c} : c \in [1..n -> cells]}
RawFrame(n, k, v, w) ==
    LET opt == [c \in {"k", "v", "w"} |-> CASE c = "k" -> k [] c = "v" -> v [] c = "w" -> w]
    IN  [frame |-> TRUE, n |-> n,
         data |-> [c \in {c \in {"k", "v", "w"} : opt[c] # {}} |-> CHOOSE x \in opt[c] : TRUE]]
RawFrames ==
    UNION {{RawFrame(n, k, v, w) : k \in ColumnOptions(n, RawCells),
                                   v \in ColumnOptions(n, RawVCells),
                                   w \in ColumnOptions(n, RawVCells)} : n \in 0..MaxRawRows}

\* required and default exclude each other; replace_null needs allow_null
KFields ==
    {IntegerFieldWith("k", rd[1], rd[2], np[1], np[2], mx, mn) :
        rd \in {<<TRUE, {}>>, <<FALSE, {}>>, <<FALSE, {Default}>>},
        np \in {<<FALSE, {}>>, <<TRUE, {}>>, <<TRUE, {ReplaceNull}>>},
        mx \in {{}, {MaxK}}, mn \in {{}, {MaxK}, {HighMin}}}
DateFields ==
    {DateField("k", np[1], np[2]) : np \in {<<FALSE, {}>>, <<TRUE, {}>>, <<TRUE, {ReplaceNull}>>}}
    \cup {DateTimeField("k", np[1], np[2]) :
            np \in {<<FALSE, {}>>, <<TRUE, {}>>, <<TRUE, {ReplaceNull}>>}}
PlainFields(names) == [j \in 1..Len(names) |-> IntegerField(names[j], TRUE, {}, {})]
FieldLists(kf) ==
    {<<kf>> \o PlainFields(<<"v">>), <<kf>> \o PlainFields(<<"v", "w">>)}

ValidatorLists ==
    {<<>>, <<UniqueTogetherValidator(<<"k">>)>>,
     <<UniqueTogetherValidator(<<"k">>), UniqueTogetherValidator(<<"v">>)>>}

SerializerConfigs ==
    {<<fs, <<>>, "identity">> : fs \in UNION {FieldLists(kf) : kf \in KFields \cup DateFields}}
    \cup {<<fs, vs, hook>> : fs \in FieldLists(IntegerField("k", TRUE, {}, {})),
                              vs \in ValidatorLists, hook \in {"identity", "raises"}}

ValidationInit ==
    /\ PersistInit
    /\ db.index = "plain" /\ ~db.kNull /\ model.unique_together = <<>>
    /\ initial_data \in RawFrames \cup {NotADataFrame}
    /\ \E c \in SerializerConfigs :
        /\ fields = c[1]
        /\ validators = c[2]
        /\ validate_hook = c[3]
    /\ has_validated = FALSE
    /\ validated = EmptyFrame
    /\ errors = NoErrors
    /\ lastCall = NoCall
    /\ runs = 0
    /\ ColumnsInit

NextValidation == IsValid

SpecValidation == ValidationInit /\ [][NextValidation]_vars

\* ------------------------------------------------------------------ properties of save / upsert
AttemptsOf(kind) == {i \in 1..Len(attempts) : attempts[i].kind = kind}
OpCount(name) == Cardinality({i \in 1..Len(ops) : ops[i] = name})
SaveOfRows == entry = "save" /\ saves > 0 /\ dataframe # <<>> /\ pc # "save_10"
Finished == saves > 0 /\ outcome # "none"
EmptyResult == IF returning_columns # <<>> THEN ListValue(<<>>) ELSE NoValue

\* the protocol of C1 with the state of the failed bulk load left as a parameter
DegradeOnceWith(bulkLoadUndone(_)) ==
    SaveOfRows =>
        /\ Len(attempts) \in {1, 2}
        /\ attempts[1].kind = "copy"
        /\ OpCount("copy_expert") <= 1
        /\ OpCount("execute") <= 1
        /\ Len(attempts) = 2 =>
            /\ attempts[2].kind = "upsert"
            /\ attempts[1].failed # "none"
            /\ attempts[1].end = "rollback"
            /\ bulkLoadUndone(attempts[1])
        /\ outcome # "none" => (Len(attempts) = 2 <=> attempts[1].failed # "none")

NoCommitIssued(a) == ~a.commitIssued
NoCommitDone(a) == ~a.committed

C3_EveryAttemptEnded ==
    (Finished /\ entry = "save") => \A i \in 1..Len(attempts) : attempts[i].end \in {"commit", "rollback"}

\* C4: when a call ends by raising to its caller, no data of that call has been
\* committed; a commit is never followed, in the same call, by an error raised.
C4_RaisedMeansNothingCommitted ==
    (Finished /\ entry = "save" /\ outcome = "raised") =>
        /\ table = table0
        /\ \A i \in 1..Len(attempts) : ~attempts[i].committed

\* C5: saving an empty dataset is a no-op: save and upsert make no call on the
\* connection, leave the table unchanged, and return [] when returning columns were
\* requested and None otherwise.
C5_EmptyIsNoOp ==
    (saves > 0 /\ dataframe = <<>>) =>
        /\ ops = <<>>
        /\ attempts = <<>>
        /\ table = table0
        /\ work = table0
        /\ pc \in {"save_10", "upsert_30", "idle"}
        /\ outcome \in {"none", "returned"}
        /\ outcome = "returned" => retval = EmptyResult

C5_Witness ==
    /\ saves = 2
    /\ table # <<>>
    /\ dataframe = <<>>
    /\ outcome = "returned"
    /\ returning_columns # <<>>
    /\ retval = ListValue(<<>>)

\* the row a dataframe row becomes once stored
Stored(r) == [k |-> IF r.k = None THEN SqlNull ELSE r.k, v |-> r.v]
RowsWithKey(tbl, k) == {j \in 1..Len(tbl) : tbl[j].k = k}
DataFrameKeys == {dataframe[i].k : i \in 1..Len(dataframe)}
NoFaultInUpsert == \A i \in AttemptsOf("upsert") : attempts[i].cause # "env"

\* C6: upsert conflict semantics over successive saves: for a table with a unique
\* constraint on the (non-nullable) key column, after a save of a batch (distinct, non-null keys) on
\* top of the rows of the earlier saves, the table holds the batch's values for every
\* key of the batch, the earlier rows of all other keys unchanged, and one row per
\* key; the save does not fail because of the keys it shares with the earlier saves.
C6_UpsertMerges ==
    (/\ Finished
     /\ entry = "save"
     /\ ~db.kNull
     /\ dataframe # <<>>
     /\ None \notin DataFrameKeys
     /\ Cardinality(DataFrameKeys) = Len(dataframe)
     /\ NoFaultInUpsert) =>
        /\ outcome = "returned"
        /\ \A i \in 1..Len(dataframe) :
              \E j \in 1..Len(table) : table[j] = Stored(dataframe[i])
        /\ \A j \in 1..Len(table0) :
              table0[j].k \notin DataFrameKeys => table[j] = table0[j]
        /\ \A k \in Keys : Cardinality(RowsWithKey(table, k)) <= 1

\* C7: the conflict target lists the unique columns, a non-nullable one by its name
\* and a nullable one as COALESCE(column, sentinel), so that two rows with null in a
\* nullable unique column conflict: a second save of such a row updates the row of
\* the first save and creates no duplicate.
C7_NullKeysConflict ==
    /\ (pc \notin {"idle", "save_10", "upsert_30"} /\ Cardinality(AttemptsOf("upsert")) = 1
        /\ model.unique_together # <<>>) =>
            query.conflict.target = <<IF db.kNull THEN CoalesceExpr("k") ELSE ColExpr("k")>>
    /\ (/\ Finished
        /\ entry = "save"
        /\ model.unique_together # <<>>
        /\ db.kNull
        /\ Len(dataframe) = 1
        /\ dataframe[1].k = None
        /\ Cardinality(RowsWithKey(table0, SqlNull)) = 1
        /\ NoFaultInUpsert) =>
            /\ outcome = "returned"
            /\ Cardinality(RowsWithKey(table, SqlNull)) = 1
            /\ \A j \in RowsWithKey(table, SqlNull) : table[j].v = dataframe[1].v

\* the columns of a unique constraint and the managed columns of the model
UniqueColumnNames(m) == {get_field_name(f) : f \in Range(get_unique_fields(m))}
ManagedColumnNames == {"id"}

\* C8: the conflict action is DO UPDATE SET col = EXCLUDED.col for exactly the dataset
\* columns that are neither a conflict-target column (nullable or not) nor a managed
\* column; no unique-constraint column and no primary-key column is in the SET list;
\* when no column remains the action is DO NOTHING.
C8_SetListExcludesTarget ==
    (Cardinality(AttemptsOf("upsert")) = 1 /\ query.conflict.present) =>
        /\ query.conflict.set =
              {ColExpr(c) : c \in Range(DataFrameColumns)
                                    \ (UniqueColumnNames(model) \cup ManagedColumnNames)}
        /\ query.conflict.do = (IF query.conflict.set = {} THEN "NOTHING" ELSE "UPDATE")

\* C9: with returning columns requested and a non-empty dataset saved successfully,
\* save returns one row per saved row holding the requested columns of that row,
\* whether the bulk load or the upsert committed the data; without returning columns
\* save returns nothing and the upsert statement has no RETURNING clause.
C9_ReturnsSavedRows ==
    /\ (Finished /\ entry = "save" /\ outcome = "returned" /\ dataframe # <<>>
        /\ returning_columns # <<>>) =>
            /\ ~retval.none
            /\ Len(retval.rows) = Len(dataframe)
            /\ \A i \in 1..Len(dataframe) :
                  /\ retval.rows[i][1] \in 1..Len(table)
                  /\ table[retval.rows[i][1]] = Stored(dataframe[i])
    /\ (Finished /\ entry = "save" /\ outcome = "returned" /\ returning_columns = <<>>) =>
            /\ retval = NoValue
            /\ query.returning = <<>>

\* ------------------------------------------------------------------ properties of the serializer
\* C10: the saver's save is invoked only if the error report is empty, and while
\* the report is non-empty no row of the dataset has been written to the table
C10_InvalidNeverSaved ==
    DOMAIN errors # {} => (saves = 0 /\ table = <<>>)

\* ------------------------------------------------------------------ properties of validation
\* the valid subset of a declared column: the row positions its field keeps
ValidSubset(field) == Labels(FieldRunValidation(field, GetValue(field, initial_data)).value)
RowIntersection ==
    {i \in 0..(initial_data.n - 1) : \A j \in 1..Len(fields) : i \in ValidSubset(fields[j])}
RowsOf(f) == {f.rows[j].i : j \in 1..Len(f.rows)}
AllColumnsGiven ==
    initial_data.frame /\ \A j \in 1..Len(fields) : fields[j].field_name \in DOMAIN initial_data.data
NoDatasetChecks == validators = <<>> /\ validate_hook = "identity"

\* C11: once a tabular input holding every declared column has been validated (no
\* dataset-level validator or hook declared), the rows of the validated dataset are
\* exactly the row positions that are in the valid subset of every column
C11_RowIntersection ==
    (has_validated /\ AllColumnsGiven /\ NoDatasetChecks) =>
        RowsOf(validated) = RowIntersection

\* the field declared for column k, the raw column and the positions of its nulls
KField == fields[1]
KGiven == initial_data.frame /\ "k" \in DOMAIN initial_data.data
KRaw == Series(initial_data.data["k"])
KNulls == {KRaw[j].i : j \in {j \in 1..Len(KRaw) : IsNull(KRaw[j].x)}}
KErrors == IF "k" \in DOMAIN errors THEN errors["k"] ELSE {}
KValue(f, label) == (CHOOSE r \in Range(f.rows) : r.i = label).c["k"]

\* allow_null false, no replace_null: a null error under the column's key, and no
\* null row of the column in the validated dataset
NullsRejected ==
    (~KField.allow_null /\ KField.replace_null = {}) =>
        /\ "null" \in KErrors
        /\ RowsOf(validated) \cap KNulls = {}
\* replace_null set: no null error, and a null row that is kept holds the replacement
NullsReplaced ==
    KField.replace_null # {} =>
        /\ "null" \notin KErrors
        /\ \A i \in RowsOf(validated) \cap KNulls :
              KValue(validated, i) \in {IntParse[r] : r \in KField.replace_null}
\* allow_null true, no replace_null: no null error, and a null row that is kept is null
NullsAllowed ==
    (KField.allow_null /\ KField.replace_null = {}) =>
        /\ "null" \notin KErrors
        /\ \A i \in RowsOf(validated) \cap KNulls : IsNull(KValue(validated, i))
        /\ KErrors = {} => KNulls \subseteq ValidSubset(KField)

\* C12: once a column k that contains a null has been validated, the null policy of
\* its field has been applied: rejected with a null error and kept out of the
\* validated dataset, or replaced without error, or passed through without error
C12_NullPolicy ==
    (has_validated /\ KGiven /\ KNulls # {} /\ NoDatasetChecks) =>
        (NullsRejected /\ NullsReplaced /\ NullsAllowed)

\* the cells of column k that reach the constraints: nulls rejected or replaced,
\* unparsable cells dropped by the coercion, the others as integers
KCell(i) ==
    LET x == ValueAt(KRaw, i)
    IN  IF IsNull(x) /\ KField.replace_null # {} THEN CHOOSE r \in KField.replace_null : TRUE
        ELSE x
KCoerced == {i \in Labels(KRaw) : KCell(i) \in DOMAIN IntParse}
KInt(i) == IntValue[IntParse[KCell(i)]]
Limits(code) == {v.limit : v \in {v \in Range(KField.validators) : v.code = code}}
SatisfiesMax(i) == \A l \in Limits("max_value") : KInt(i) <= l
SatisfiesMin(i) == \A l \in Limits("min_value") : KInt(i) >= l
NoNullReachesConstraints == KField.allow_null => (KField.replace_null # {} \/ KNulls = {})

DeclaredColumns == {fields[j].source : j \in 1..Len(fields)}

\* C14: after is_valid on an input of zero rows that holds every declared column,
\* is_valid returned True, the error report is empty and the validated dataset has
\* no rows and every declared column
C14_ZeroRowsValid ==
    (has_validated /\ AllColumnsGiven /\ initial_data.n = 0 /\ NoDatasetChecks) =>
        /\ lastCall.result = "True"
        /\ errors = NoErrors
        /\ validated.rows = <<>>
        /\ Range(validated.cols) = DeclaredColumns

\* C15: once a call of is_valid has stored its result, no later call runs the
\* validation again, and the validated dataset and the error report stay what the
\* first call made them
C15_Memoized ==
    [][has_validated => (runs' = runs /\ validated' = validated /\ errors' = errors)]_vars

\* a later call of is_valid has answered from the stored result of a run that
\* recorded errors
C15_Witness ==
    /\ has_validated /\ runs = 1
    /\ lastCall.op = "is_valid" /\ lastCall.ran = 0
    /\ DOMAIN errors # {}

KMissing == initial_data.frame /\ "k" \notin DOMAIN initial_data.data
OtherRows ==
    {i \in 0..(initial_data.n - 1) : \A j \in 2..Len(fields) : i \in ValidSubset(fields[j])}

\* C16: after is_valid on an input without column k, a required k has a required
\* error under its key; a k that is not required has no entry in the error report,
\* is_valid has not failed on it, and the rows kept by the other columns are the
\* rows of the validated dataset
C16_MissingColumn ==
    (lastCall.op = "is_valid" /\ KMissing /\ NoDatasetChecks) =>
        /\ KField.required => "required" \in KErrors
        /\ ~KField.required =>
              /\ lastCall.result # "error"
              /\ "k" \notin DOMAIN errors
              /\ RowsOf(validated) = OtherRows

ErrorsAt(key) == IF key \in DOMAIN errors THEN errors[key] ELSE {}
\* the errors the field of a column produces on the raw input
ColumnErrors(field) == FieldRunValidation(field, GetValue(field, initial_data)).errors
\* the errors the dataset-level validators produce on the reconciled dataset
DatasetErrors ==
    LET v == run_validators(validators, 1, to_internal_value(initial_data, fields).data, NoErrors)
    IN  IF NON_FIELD_ERRORS_KEY \in DOMAIN v.errors THEN {"duplicated"} ELSE {}
HookErrors == IF validate_hook = "raises" THEN {"validate"} ELSE {}

\* C17: after the validation of a tabular input, the report holds every error
\* produced by a column's field under the column's key, and every error produced
\* by a dataset-level validator or by the validate hook under the non-field key
C17_ErrorsAccumulate ==
    (has_validated /\ initial_data.frame) =>
        /\ \A j \in 1..Len(fields) : ColumnErrors(fields[j]) \subseteq ErrorsAt(fields[j].field_name)
        /\ (DatasetErrors \cup HookErrors) \subseteq ErrorsAt(NON_FIELD_ERRORS_KEY)

\* the rows of column k whose raw value is not null and does not parse
KUnparseable == {KRaw[j].i : j \in {j \in 1..Len(KRaw) : ~IsNull(KRaw[j].x) /\ ~Parses(KRaw[j].x)}}

\* C18: after the validation of a date or datetime column k holding a non-null value
\* that does not parse, an invalid error is recorded under k and no such row is in
\* the column's valid subset
C18_UnparseableDates ==
    (has_validated /\ KGiven /\ KField.kind \in {"date", "datetime"} /\ KUnparseable # {}) =>
        /\ "invalid" \in KErrors
        /\ ValidSubset(KField) \cap KUnparseable = {}

\* ------------------------------------------------------------------ properties of the columns
\* the row positions of the cells whose elements fail the child's validation
FailingCells == {j - 1 : j \in {j \in 1..Len(list_data) : ChildFails(list_data[j])}}

\* C19: after ListColumn._validate, the errors are recorded under the row positions
\* of the failing cells, one key for each, and every other cell is in the result
C19_ListErrorsByRow ==
    list_result.called =>
        /\ DOMAIN list_result.errors = FailingCells
        /\ \A j \in 1..Len(list_data) :
              (j - 1) \notin FailingCells =>
                  /\ j \in DOMAIN list_result.data
                  /\ list_result.data[j] = ChildValue(list_data[j])

\* C20: the validators an instance runs are the constraints its own constructor
\* declared
C20_ConstraintIsolation ==
    \A j \in 1..Len(instances) :
        InstanceValidators(instances[j])
            = DeclaredValidators(instances[j].cls, instances[j].max, instances[j].min)

\* a nullable integer column k (allow_null true, no replace_null) that declares a
\* range constraint and holds a null
KNullableConstrained ==
    /\ KGiven /\ KField.kind = "integer"
    /\ KField.allow_null /\ KField.replace_null = {}
    /\ KField.validators # <<>>
    /\ KNulls # {}

\* C21: after the validation of a nullable column k with a range constraint, every
\* row whose value is null is in the column's valid subset, whether or not another
\* row violates the constraint
C21_NullsSurviveNarrowing ==
    (has_validated /\ KNullableConstrained) => KNulls \subseteq ValidSubset(KField)

====
